---- MODULE Spec2Model ----
(***************************************************************************)
(* Model of server.py: the "Full-File MCP Server".                         *)
(*                                                                         *)
(* The service keeps one process-wide dict `sessions` and serves five      *)
(* POST endpoints.  The endpoints are plain `def` functions, which the     *)
(* framework runs on worker threads, so several handlers can be running    *)
(* at once.  A handler is modelled by its position (pc) and its locals;    *)
(* every read or write of `sessions` is one atomic step, and the blocking  *)
(* upstream call separates the session lookup from the two appends.        *)
(*                                                                         *)
(* Strings are sequences of tokens: "" is << >>, concatenation is \o.      *)
(* An optional field is << >> (None / absent) or <<v>> (present).          *)
(***************************************************************************)
EXTENDS Integers, Sequences, FiniteSets, TLC

\* ------------------------------------------------------------------ bounds

\* size of the pool uuid4() draws from (identifiers 1..MaxSessions)
MaxSessions == 2
\* history entries stored in total, over all sessions
MaxTurns == 4

\* ------------------------------------------------------------- value sets

\* the worker threads that run the handlers
Reqs == {"w1", "w2"}
Uuid == 1 .. MaxSessions
\* a session_id string that uuid4() never returns
GarbageId == 0

None == << >>
Some(v) == <<v>>
IsNone(o) == o = << >>
Val(o) == o[1]
\* Python truthiness of an optional string: neither None nor ""
Truthy(o) == o # << >> /\ o[1] # << >>
\* what an f-string renders for an optional string
Text(o) == IF IsNone(o) THEN <<"None">> ELSE Val(o)

FileInputs ==
    { [file_name |-> <<"a.py">>, full_file |-> <<"print(1)">>],
      [file_name |-> <<"b.py">>, full_file |-> << >>] }

\* the fields besides session_id that a snippet request may carry
SnippetShapes ==
    { [snippet |-> Some(<<"a">>), question |-> None, programming_lang |-> None],
      [snippet |-> Some(<<"a">>), question |-> Some(<<"q">>), programming_lang |-> Some(<<"py">>)],
      [snippet |-> None, question |-> None, programming_lang |-> None],
      [snippet |-> None, question |-> Some(<<"q">>), programming_lang |-> Some(<<"py">>)] }

SessionIdInputs == {None} \cup { Some(i) : i \in {GarbageId} \cup Uuid }

SnippetInputs ==
    { [session_id |-> s, snippet |-> sh.snippet, question |-> sh.question,
       programming_lang |-> sh.programming_lang] :
         s \in SessionIdInputs, sh \in SnippetShapes }

\* texts the upstream model can answer with
Texts == { <<"x">>, <<"y">> }

\* ------------------------------------------------------------------ state

VARIABLES
    sessions,   \* the dict `sessions`: identifier -> session record
    pc,         \* pc[r]: position of the handler serving request slot r
    op,         \* op[r]: the endpoint the request was sent to
    req,        \* req[r]: the request's fields
    local,      \* local[r]: the handler's local variables
    resp        \* resp[r]: the HTTP response, once the handler has ended

vars == <<sessions, pc, op, req, local, resp>>

NoReq ==
    [session_id |-> None, snippet |-> None, question |-> None,
     programming_lang |-> None, file_name |-> None, full_file |-> None]

\* session: the key of the record the handler holds a reference to; prompt, text:
\* the prompt built and the text ai_response returned; response: what came back
\* from requests.post; h0, h1: session["history"] as the handler found it at its
\* lookup and as it left it at its return; calls: how many times requests.post
\* has been called for the request
NoLocal ==
    [session |-> -1, prompt |-> << >>, text |-> << >>, response |-> None,
     h0 |-> << >>, h1 |-> << >>, calls |-> 0]

NoResp == [status |-> 0, key |-> "", value |-> << >>, session_id |-> -1, detail |-> << >>]

Init ==
    /\ sessions = << >>
    /\ pc = [r \in Reqs |-> "idle"]
    /\ op = [r \in Reqs |-> "none"]
    /\ req = [r \in Reqs |-> NoReq]
    /\ local = [r \in Reqs |-> NoLocal]
    /\ resp = [r \in Reqs |-> NoResp]

\* --------------------------------------------------------- upstream call

\* timeout of ai_response when the caller passes none (explain)
DefaultTimeout == 40
\* timeout passed by fix and method_completion
LongTimeout == 60

\* JSON documents the endpoint can send back
GoodBody(t) == [candidates |-> << [content |-> [parts |-> << [text |-> t] >>]] >>]
ErrorBody == [error |-> "quota"]
BadBodies ==
    { ErrorBody,
      [candidates |-> << >>],
      [candidates |-> << [finishReason |-> "SAFETY"] >>],
      [candidates |-> << [content |-> [role |-> "model"]] >>],
      [candidates |-> << [content |-> [parts |-> << >>]] >>],
      [candidates |-> << [content |-> [parts |-> << [inlineData |-> "b"] >>]] >> ] }

\* What can happen to one requests.post: no connection; or a response after
\* `elapsed` seconds with a status and a body that is JSON or not.  Only a 200
\* response carries a generateContent document; other statuses carry an error
\* document or no JSON at all.
Outcomes ==
    { [connected |-> FALSE, elapsed |-> 0, status |-> 0, json |-> FALSE, data |-> ErrorBody] }
    \cup { [connected |-> TRUE, elapsed |-> e, status |-> 200, json |-> TRUE, data |-> d] :
             e \in {30, 50, 70}, d \in BadBodies \cup { GoodBody(t) : t \in Texts } }
    \cup { [connected |-> TRUE, elapsed |-> e, status |-> st, json |-> j, data |-> ErrorBody] :
             e \in {30}, st \in {200, 302, 429, 500}, j \in BOOLEAN }

Return(t) == [ok |-> TRUE, text |-> t, status |-> 200, detail |-> << >>]
HTTPException(code, detail) == [ok |-> FALSE, text |-> << >>, status |-> code, detail |-> detail]

\* str(e) of an HTTPException
StrHTTPException(x) == <<"500: ">> \o x.detail

\* data["candidates"][0]["content"]["parts"][0]["text"]; the name of the
\* exception the subscripting raises, or "" and the text
Extract(data) ==
    IF "candidates" \notin DOMAIN data THEN [exc |-> "KeyError", text |-> << >>]
    ELSE IF Len(data.candidates) = 0 THEN [exc |-> "IndexError", text |-> << >>]
    ELSE LET c == data.candidates[1] IN
      IF "content" \notin DOMAIN c THEN [exc |-> "KeyError", text |-> << >>]
      ELSE IF "parts" \notin DOMAIN c.content THEN [exc |-> "KeyError", text |-> << >>]
      ELSE IF Len(c.content.parts) = 0 THEN [exc |-> "IndexError", text |-> << >>]
      ELSE IF "text" \notin DOMAIN c.content.parts[1] THEN [exc |-> "KeyError", text |-> << >>]
      ELSE [exc |-> "", text |-> c.content.parts[1].text]

\* variant: a body without the text field counts as an empty answer
ai_response_lenient(prompt_text, timeout, out) ==
    IF ~out.connected THEN HTTPException(500, <<"ConnectionError">>)
    ELSE IF out.elapsed > timeout THEN HTTPException(500, <<"Timeout">>)
    ELSE IF out.status >= 400 /\ out.status < 600 THEN HTTPException(500, <<"HTTPError">>)
    ELSE IF ~out.json THEN HTTPException(500, <<"JSONDecodeError">>)
    ELSE Return(Extract(out.data).text)

\* ai_response(prompt_text, timeout) when the network behaves as `out`
ai_response(prompt_text, timeout, out) ==
    IF ~out.connected THEN HTTPException(500, <<"ConnectionError">>)
    ELSE IF out.elapsed > timeout THEN HTTPException(500, <<"Timeout">>)
    ELSE IF out.status >= 400 /\ out.status < 600 THEN HTTPException(500, <<"HTTPError">>)
    ELSE IF ~out.json THEN HTTPException(500, <<"JSONDecodeError">>)
    ELSE LET x == Extract(out.data) IN
      IF x.exc # "" THEN HTTPException(500, <<x.exc>>) ELSE Return(x.text)

\* -------------------------------------------------------------- prompts

RECURSIVE HistoryLines(_)
\* for h in session["history"]: prompt += f"{h['role']}:\n{h['content']}\n"
HistoryLines(history) ==
    IF history = << >> THEN << >>
    ELSE <<Head(history).role, ":\n">> \o Head(history).content \o <<"\n">>
         \o HistoryLines(Tail(history))

\* variant: only the assistant entries of the history are included
explain_prompt_assistant_only(p, session) ==
    LET p1 == <<"Explain the following code snippet in context of the full file in concisely:\n">>
              \o Text(p.snippet) \o <<"\n">>
        p2 == IF Truthy(p.question)
              THEN p1 \o <<"Question: ">> \o Text(p.question) \o <<"\n">> ELSE p1
        p3 == IF Truthy(p.programming_lang)
              THEN <<"Programming language: ">> \o Text(p.programming_lang) \o <<"\n">> \o p2
              ELSE p2
        p4 == p3 \o <<"\nFull file:\n">> \o session.full_file \o <<"\n\n">>
        IsA(h) == h.role = "assistant"
    IN p4 \o HistoryLines(SelectSeq(session.history, IsA))

explain_prompt(p, session) ==
    LET p1 == <<"Explain the following code snippet in context of the full file in concisely:\n">>
              \o Text(p.snippet) \o <<"\n">>
        p2 == IF Truthy(p.question)
              THEN p1 \o <<"Question: ">> \o Text(p.question) \o <<"\n">> ELSE p1
        p3 == IF Truthy(p.programming_lang)
              THEN <<"Programming language: ">> \o Text(p.programming_lang) \o <<"\n">> \o p2
              ELSE p2
        p4 == p3 \o <<"\nFull file:\n">> \o session.full_file \o <<"\n\n">>
    IN p4 \o HistoryLines(session.history)

fix_prompt(p, session) ==
    \* "[fence]" stands for the three backquotes of a Markdown code fence
    LET p1 == <<"Fix any bugs in the following code snippet:\n\n[fence]\n">>
              \o Text(p.snippet) \o <<"\n[fence]\n\n">>
        p2 == IF Truthy(p.programming_lang)
              THEN <<"Programming language: ">> \o Text(p.programming_lang) \o <<"\n\n">> \o p1
              ELSE p1
    IN p2 \o <<"Return only the corrected code snippet.">>

method_completion_prompt(p, session) ==
    LET p1 == <<"Complete the following method within the context of the code:\n">>
              \o Text(p.snippet) \o <<"\n\nFull context:\n">> \o session.full_file \o <<"\n">>
        p2 == IF Truthy(p.programming_lang)
              THEN <<"Programming language: ">> \o Text(p.programming_lang) \o <<"\n">> \o p1
              ELSE p1
    IN p2 \o <<"\nReturn only the completed method implementation.">>

SnippetOps == {"explain", "fix", "method_completion"}

BuildPrompt(o, p, session) ==
    CASE o = "explain" -> explain_prompt(p, session)
      [] o = "fix" -> fix_prompt(p, session)
      [] o = "method_completion" -> method_completion_prompt(p, session)

TimeoutOf(o) == IF o = "explain" THEN DefaultTimeout ELSE LongTimeout

\* the key of the JSON object a successful call returns
ResultKey(o) ==
    CASE o = "explain" -> "explanation"
      [] o = "fix" -> "fixed_code"
      [] o = "method_completion" -> "completed_method"

\* ------------------------------------------------------------- responses

Ok(key, value) ==
    [status |-> 200, key |-> key, value |-> value, session_id |-> -1, detail |-> << >>]
OkSession(id) ==
    [status |-> 200, key |-> "session_id", value |-> << >>, session_id |-> id, detail |-> << >>]
Error(code, detail) ==
    [status |-> code, key |-> "detail", value |-> << >>, session_id |-> -1, detail |-> detail]

\* the framework's answer to a body or query that does not fit the declared model
Unprocessable == Error(422, <<"Field required">>)
SessionNotFound == Error(404, <<"Session not found">>)

\* variant: snippet declared optional
SnippetRequestValidLax(p) == ~IsNone(p.session_id)

\* class SnippetRequest: session_id and snippet are required strings
SnippetRequestValid(p) == ~IsNone(p.session_id) /\ ~IsNone(p.snippet)

\* ----------------------------------------------------------- the store

\* variant: every entry tagged "user"
TurnAlwaysUser(role, content) == [role |-> "user", content |-> content]

Turn(role, content) == [role |-> role, content |-> content]

\* variant: the two fields stored the wrong way round
NewSessionSwapped(file_name, full_file) ==
    [file_name |-> full_file, full_file |-> file_name, history |-> << >>]

NewSession(file_name, full_file) ==
    [file_name |-> file_name, full_file |-> full_file, history |-> << >>]

\* variant: the dict is rebound to one holding only the new record
PutAlone(store, id, record) == [i \in {id} |-> record]

\* sessions[id] = record
Put(store, id, record) ==
    [i \in DOMAIN store \cup {id} |-> IF i = id THEN record ELSE store[i]]

\* variant: one list object shared by the histories of all sessions
AppendShared_(store, id, turn) ==
    [i \in DOMAIN store |-> [store[i] EXCEPT !.history = Append(@, turn)]]

\* variant: insert(0, turn)
Prepend_(store, id, turn) ==
    [store EXCEPT ![id].history = <<turn>> \o @]

\* session["history"].append(turn), session being sessions[id]
Append_(store, id, turn) ==
    [store EXCEPT ![id].history = Append(@, turn)]

\* variant: an identifier source that can repeat itself
uuid4_repeating == Uuid

\* the identifiers str(uuid.uuid4()) can return: any one not handed out before
uuid4 == Uuid \ DOMAIN sessions

RECURSIVE JoinStr(_, _)
\* sep.join(xs)
JoinStr(sep, xs) ==
    IF xs = << >> THEN << >>
    ELSE IF Len(xs) = 1 THEN xs[1]
    ELSE xs[1] \o sep \o JoinStr(sep, Tail(xs))

\* variant: no filter on the role
IsAnyRole(h) == TRUE

IsAssistant(h) == h.role = "assistant"

\* [h["content"] for h in history if h["role"] == "assistant"]
AssistantContents(history) ==
    LET sel == SelectSeq(history, IsAssistant)
    IN [i \in 1 .. Len(sel) |-> sel[i].content]

FullExplanation(history) == JoinStr(<<"\n", "\n">>, AssistantContents(history))

\* ------------------------------------------------------ the model's cap

RECURSIVE SumLen(_, _)
SumLen(store, ids) ==
    IF ids = {} THEN 0
    ELSE LET i == CHOOSE j \in ids : TRUE
         IN Len(store[i].history) + SumLen(store, ids \ {i})

TotalTurns == SumLen(sessions, DOMAIN sessions)

\* entries that the handlers past their session check have still to append
Owed ==
    2 * Cardinality({ r \in Reqs : pc[r] \in {"call", "store_user"} })
    + Cardinality({ r \in Reqs : pc[r] = "store_assistant" })

\* a further snippet request is taken on only while its two entries fit the cap
Room == TotalTurns + Owed + 2 <= MaxTurns

\* ---------------------------------------------------------------- actions

Finish(r, response) ==
    /\ pc' = [pc EXCEPT ![r] = "done"]
    /\ resp' = [resp EXCEPT ![r] = response]

\* POST /start_session
start_session(r, f) ==
    /\ pc[r] = "idle"
    /\ \E session_id \in uuid4 :
         /\ sessions' = Put(sessions, session_id, NewSession(f.file_name, f.full_file))
         /\ Finish(r, OkSession(session_id))
    /\ op' = [op EXCEPT ![r] = "start_session"]
    /\ req' = [req EXCEPT ![r] = [NoReq EXCEPT !.file_name = Some(f.file_name),
                                                !.full_file = Some(f.full_file)]]
    /\ UNCHANGED local

\* variant: the unknown identifier gets a record (a setdefault-style lookup)
NotFoundCreates(r) ==
    /\ Finish(r, SessionNotFound)
    /\ sessions' = Put(sessions, Val(req'[r].session_id), NewSession(<< >>, << >>))
    /\ UNCHANGED local

\* raise HTTPException(status_code=404, detail="Session not found")
NotFound(r) ==
    /\ Finish(r, SessionNotFound)
    /\ UNCHANGED <<sessions, local>>

\* POST /explain, /fix, /method_completion up to the upstream call: validation
\* of the body, the session check, the lookup and the prompt
Enter(r, o, p) ==
    /\ pc[r] = "idle"
    /\ op' = [op EXCEPT ![r] = o]
    /\ req' = [req EXCEPT ![r] = [NoReq EXCEPT !.session_id = p.session_id,
                                                !.snippet = p.snippet,
                                                !.question = p.question,
                                                !.programming_lang = p.programming_lang]]
    /\ IF ~SnippetRequestValid(p)
       THEN Finish(r, Unprocessable) /\ UNCHANGED <<sessions, local>>
       ELSE IF Val(p.session_id) \notin DOMAIN sessions
       THEN NotFound(r)
       ELSE /\ Room
            /\ pc' = [pc EXCEPT ![r] = "call"]
            /\ local' = [local EXCEPT ![r] =
                 [NoLocal EXCEPT
                    !.session = Val(p.session_id),
                    !.prompt = BuildPrompt(o, p, sessions[Val(p.session_id)]),
                    !.h0 = sessions[Val(p.session_id)].history]]
            /\ UNCHANGED <<sessions, resp>>

\* what a failed ai_response becomes: explain lets the HTTPException through,
\* fix and method_completion catch it and raise their own
Failure(o, x) ==
    IF o = "explain" THEN Error(x.status, x.detail)
    ELSE Error(500, <<"Error: ">> \o StrHTTPException(x))

\* variant: the user turn is stored before the upstream call is known to succeed
CallStoresFirst(r, out) ==
    /\ pc[r] = "call"
    /\ LET x == ai_response(local[r].prompt, TimeoutOf(op[r]), out) IN
         IF x.ok
         THEN /\ pc' = [pc EXCEPT ![r] = "store_user"]
              /\ local' = [local EXCEPT ![r].text = x.text, ![r].response = Some(out),
                                        ![r].calls = @ + 1]
              /\ UNCHANGED <<sessions, resp>>
         ELSE /\ Finish(r, Failure(op[r], x))
              /\ local' = [local EXCEPT ![r].response = Some(out), ![r].calls = @ + 1]
              /\ sessions' = Append_(sessions, local[r].session,
                                     Turn("user", Val(req[r].snippet)))
    /\ UNCHANGED <<op, req>>

\* variant: a failed call is tried a second time
CallRetriesOnce(r, out) ==
    /\ pc[r] = "call"
    /\ LET x == ai_response(local[r].prompt, TimeoutOf(op[r]), out) IN
         IF x.ok
         THEN /\ pc' = [pc EXCEPT ![r] = "store_user"]
              /\ local' = [local EXCEPT ![r].text = x.text, ![r].response = Some(out),
                                        ![r].calls = @ + 1]
              /\ UNCHANGED <<sessions, resp>>
         ELSE IF local[r].calls = 0
         THEN /\ local' = [local EXCEPT ![r].calls = @ + 1]
              /\ UNCHANGED <<sessions, pc, resp>>
         ELSE /\ Finish(r, Failure(op[r], x))
              /\ local' = [local EXCEPT ![r].response = Some(out), ![r].calls = @ + 1]
              /\ UNCHANGED sessions
    /\ UNCHANGED <<op, req>>

\* the upstream call returns or raises
Call(r, out) ==
    /\ pc[r] = "call"
    /\ LET x == ai_response(local[r].prompt, TimeoutOf(op[r]), out) IN
         IF x.ok
         THEN /\ pc' = [pc EXCEPT ![r] = "store_user"]
              /\ local' = [local EXCEPT ![r].text = x.text, ![r].response = Some(out),
                                        ![r].calls = @ + 1]
              /\ UNCHANGED <<sessions, resp>>
         ELSE /\ Finish(r, Failure(op[r], x))
              /\ local' = [local EXCEPT ![r].response = Some(out), ![r].calls = @ + 1]
              /\ UNCHANGED sessions
    /\ UNCHANGED <<op, req>>

\* variant: the append waits until no other handler is about to append
StoreUserWaits(r) ==
    /\ pc[r] = "store_user"
    /\ \A q \in Reqs \ {r} : pc[q] # "store_user"
    /\ sessions' = Append_(sessions, local[r].session, Turn("user", Val(req[r].snippet)))
    /\ pc' = [pc EXCEPT ![r] = "store_assistant"]
    /\ UNCHANGED <<op, req, local, resp>>

\* variant: the question is stored as the user turn
StoreUserStoresQuestion(r) ==
    /\ pc[r] = "store_user"
    /\ sessions' = Append_(sessions, local[r].session, Turn("user", Text(req[r].question)))
    /\ pc' = [pc EXCEPT ![r] = "store_assistant"]
    /\ UNCHANGED <<op, req, local, resp>>

\* variant: the user turn is not stored
StoreUserSkipped(r) ==
    /\ pc[r] = "store_user"
    /\ pc' = [pc EXCEPT ![r] = "store_assistant"]
    /\ UNCHANGED <<sessions, op, req, local, resp>>

\* session["history"].append({"role": "user", "content": req.snippet})
StoreUser(r) ==
    /\ pc[r] = "store_user"
    /\ sessions' = Append_(sessions, local[r].session, Turn("user", Val(req[r].snippet)))
    /\ pc' = [pc EXCEPT ![r] = "store_assistant"]
    /\ UNCHANGED <<op, req, local, resp>>

\* variant: the history is written back from the copy read at the lookup
StoreAssistantStale(r) ==
    /\ pc[r] = "store_assistant"
    /\ sessions' = [sessions EXCEPT ![local[r].session].history =
                      local[r].h0 \o << Turn("user", Val(req[r].snippet)),
                                        Turn("assistant", local[r].text) >>]
    /\ local' = [local EXCEPT ![r].h1 = sessions'[local[r].session].history]
    /\ Finish(r, Ok(ResultKey(op[r]), local[r].text))
    /\ UNCHANGED <<op, req>>

\* session["history"].append({"role": "assistant", "content": ...}); return
StoreAssistant(r) ==
    /\ pc[r] = "store_assistant"
    /\ sessions' = Append_(sessions, local[r].session, Turn("assistant", local[r].text))
    /\ local' = [local EXCEPT ![r].h1 = sessions'[local[r].session].history]
    /\ Finish(r, Ok(ResultKey(op[r]), local[r].text))
    /\ UNCHANGED <<op, req>>

explain(r, inputs, outs) ==
    \/ \E p \in inputs : Enter(r, "explain", p)
    \/ op[r] = "explain" /\ \E out \in outs : Call(r, out)
    \/ op[r] = "explain" /\ StoreUser(r)
    \/ op[r] = "explain" /\ StoreAssistant(r)

fix(r, inputs, outs) ==
    \/ \E p \in inputs : Enter(r, "fix", p)
    \/ op[r] = "fix" /\ \E out \in outs : Call(r, out)
    \/ op[r] = "fix" /\ StoreUser(r)
    \/ op[r] = "fix" /\ StoreAssistant(r)

method_completion(r, inputs, outs) ==
    \/ \E p \in inputs : Enter(r, "method_completion", p)
    \/ op[r] = "method_completion" /\ \E out \in outs : Call(r, out)
    \/ op[r] = "method_completion" /\ StoreUser(r)
    \/ op[r] = "method_completion" /\ StoreAssistant(r)

\* variant: the history is emptied once it has been read out
get_full_explanation_draining(r, session_id) ==
    /\ pc[r] = "idle"
    /\ op' = [op EXCEPT ![r] = "get_full_explanation"]
    /\ req' = [req EXCEPT ![r] = [NoReq EXCEPT !.session_id = session_id]]
    /\ IF IsNone(session_id)
       THEN Finish(r, Unprocessable) /\ UNCHANGED <<sessions, local>>
       ELSE IF Val(session_id) \notin DOMAIN sessions
       THEN NotFound(r)
       ELSE /\ Finish(r, Ok("full_explanation",
                            FullExplanation(sessions[Val(session_id)].history)))
            /\ sessions' = [sessions EXCEPT ![Val(session_id)].history = << >>]
            /\ UNCHANGED local

\* POST /get_full_explanation?session_id=...
get_full_explanation(r, session_id) ==
    /\ pc[r] = "idle"
    /\ op' = [op EXCEPT ![r] = "get_full_explanation"]
    /\ req' = [req EXCEPT ![r] = [NoReq EXCEPT !.session_id = session_id]]
    /\ IF IsNone(session_id)
       THEN Finish(r, Unprocessable) /\ UNCHANGED <<sessions, local>>
       ELSE IF Val(session_id) \notin DOMAIN sessions
       THEN NotFound(r)
       ELSE /\ Finish(r, Ok("full_explanation",
                            FullExplanation(sessions[Val(session_id)].history)))
            /\ UNCHANGED <<sessions, local>>

\* the response has gone out; the worker takes the next request
Deliver(r) ==
    /\ pc[r] = "done"
    /\ pc' = [pc EXCEPT ![r] = "idle"]
    /\ op' = [op EXCEPT ![r] = "none"]
    /\ req' = [req EXCEPT ![r] = NoReq]
    /\ local' = [local EXCEPT ![r] = NoLocal]
    /\ resp' = [resp EXCEPT ![r] = NoResp]
    /\ UNCHANGED sessions

\* ---------------------------------------------------------- environments

\* The requests and upstream behaviours of the concurrent specification: two
\* workers, every endpoint, known and unknown identifiers, well-formed bodies,
\* answers and two kinds of upstream failure.
CoreFiles == { [file_name |-> <<"a.py">>, full_file |-> <<"print(1)">>] }
CoreSessionIds == { Some(i) : i \in {GarbageId} \cup Uuid }
CoreSnippets ==
    { [session_id |-> s, snippet |-> Some(<<"a">>), question |-> Some(<<"q">>),
       programming_lang |-> Some(<<"py">>)] : s \in CoreSessionIds }
CoreOutcomes ==
    { o \in Outcomes :
        \/ ~o.connected
        \/ o.elapsed = 30 /\ o.status = 200 /\ o.json
           /\ o.data \in { GoodBody(t) : t \in Texts } \cup { [candidates |-> << >>] } }

NextIn(workers, files, snippets, ids, outs) ==
    \/ \E r \in workers, f \in files : start_session(r, f)
    \/ \E r \in workers : explain(r, snippets, outs)
    \/ \E r \in workers : fix(r, snippets, outs)
    \/ \E r \in workers : method_completion(r, snippets, outs)
    \/ \E r \in workers, s \in ids : get_full_explanation(r, s)
    \/ \E r \in workers : Deliver(r)

\* both workers, the core requests
Next == NextIn(Reqs, CoreFiles, CoreSnippets, CoreSessionIds, CoreOutcomes)

Spec == Init /\ [][Next]_vars

\* what a handler that is past its session check does next: its upstream call
\* ends (an answer, an error or the timeout), then its two appends and its return
Proceed(r) ==
    \/ \E out \in CoreOutcomes : Call(r, out)
    \/ StoreUser(r)
    \/ StoreAssistant(r)

\* Spec with every worker thread scheduled again and again and every
\* requests.post ending: a handler that can proceed eventually does
FairSpec == Spec /\ \A r \in Reqs : WF_vars(Proceed(r))

\* one worker, every request and every upstream behaviour
NextSeq == NextIn({"w1"}, FileInputs, SnippetInputs, SessionIdInputs, Outcomes)

SeqSpec == Init /\ [][NextSeq]_vars

\* ------------------------------------------------------------ properties

SessionOps == SnippetOps \cup {"get_full_explanation"}

IsPrefix(s, t) == Len(s) <= Len(t) /\ SubSeq(t, 1, Len(s)) = s

\* a successful snippet call that has returned
Succeeded(r) == pc[r] = "done" /\ op[r] \in SnippetOps /\ resp[r].status = 200

\* the upstream call did not deliver a generateContent answer within `timeout`
UpstreamFails(out, timeout) ==
    \/ ~out.connected
    \/ out.elapsed > timeout
    \/ out.status \notin 200 .. 299
    \/ ~out.json
    \/ out.data \notin { GoodBody(t) : t \in Texts }

\* C1: when explain, fix, method_completion or get_full_explanation is handed an
\* identifier that is not a key of the store, the request ends with 404 and the
\* step leaves the whole store as it was.
C1_UnknownSessionNotFound ==
    [][\A r \in Reqs :
         ( /\ pc[r] = "idle" /\ pc'[r] # "idle"
           /\ op'[r] \in SessionOps
           /\ ~IsNone(req'[r].session_id)
           /\ (op'[r] \in SnippetOps => ~IsNone(req'[r].snippet))
           /\ Val(req'[r].session_id) \notin DOMAIN sessions )
         => ( /\ pc'[r] = "done"
              /\ resp'[r].status = 404
              /\ sessions' = sessions )]_vars

\* two requests answered 404 while another session exists, one of them a
\* get_full_explanation and one a snippet call
C1_Witness ==
    /\ DOMAIN sessions # {}
    /\ \E r, q \in Reqs :
         /\ pc[r] = "done" /\ op[r] = "get_full_explanation" /\ resp[r].status = 404
         /\ pc[q] = "done" /\ op[q] \in SnippetOps /\ resp[q].status = 404
         /\ Val(req[q].session_id) \notin DOMAIN sessions

\* C2 as stated: at the return of a successful snippet call the history is the
\* history the call found, followed by exactly one user and one assistant entry.
C2_ExactlyTwoAppended ==
    \A r \in Reqs :
      Succeeded(r) =>
        LET h0 == local[r].h0
            h1 == local[r].h1
        IN /\ Len(h1) = Len(h0) + 2
           /\ SubSeq(h1, 1, Len(h0)) = h0
           /\ h1[Len(h0) + 1].role = "user"
           /\ h1[Len(h0) + 2].role = "assistant"

\* C2 amended: at the return of a successful snippet call the history the call
\* found is a prefix of the history; behind it stand the call's user entry and,
\* later and last, its assistant entry; and when nothing else was appended
\* meanwhile the new entries are exactly these two, user then assistant.
C2_OwnTwoAppended ==
    \A r \in Reqs :
      Succeeded(r) =>
        LET h0 == local[r].h0
            h1 == local[r].h1
            u == Turn("user", Val(req[r].snippet))
            a == Turn("assistant", resp[r].value)
        IN /\ IsPrefix(h0, h1)
           /\ Len(h1) >= Len(h0) + 2
           /\ h1[Len(h1)] = a
           /\ \E i \in (Len(h0) + 1) .. (Len(h1) - 1) : h1[i] = u
           /\ (Len(h1) = Len(h0) + 2 => h1 = h0 \o <<u, a>>)

\* a call that found two entries and returned with exactly two more
C2_Witness ==
    \E r \in Reqs :
      /\ Succeeded(r)
      /\ Len(local[r].h0) = 2
      /\ Len(local[r].h1) = 4
      /\ sessions[local[r].session].history = local[r].h1

\* C3: every start_session request ends with 200 and an identifier, and the
\* record stored under that identifier holds the request's file_name and
\* full_file and an empty history.
C3_StartSessionStores ==
    \A r \in Reqs :
      (pc[r] # "idle" /\ op[r] = "start_session") =>
        /\ pc[r] = "done"
        /\ resp[r].status = 200
        /\ resp[r].key = "session_id"
        /\ resp[r].session_id \in DOMAIN sessions
        /\ sessions[resp[r].session_id] =
             [file_name |-> Val(req[r].file_name),
              full_file |-> Val(req[r].full_file),
              history |-> << >>]

\* a second session started for b.py while the first one already has a history
C3_Witness ==
    \E r \in Reqs :
      /\ pc[r] = "done" /\ op[r] = "start_session"
      /\ Val(req[r].file_name) = <<"b.py">>
      /\ \E i \in DOMAIN sessions :
           i # resp[r].session_id /\ Len(sessions[i].history) = 2

\* C4: the step in which the upstream call of a snippet request fails ends the
\* request with 500 and leaves the store, hence the session's history, as it was;
\* the handler never reaches its appends.
C4_FailedCallAborts ==
    [][\A r \in Reqs :
         ( /\ pc[r] = "call"
           /\ ~IsNone(local'[r].response)
           /\ UpstreamFails(Val(local'[r].response), TimeoutOf(op[r])) )
         => ( /\ pc'[r] = "done"
              /\ resp'[r].status = 500
              /\ local'[r].h1 = << >>
              /\ sessions' = sessions )]_vars

\* a fix that ended with 500 on a session whose earlier two entries are intact
C4_Witness ==
    \E r \in Reqs :
      /\ pc[r] = "done" /\ op[r] = "fix" /\ resp[r].status = 500
      /\ Len(local[r].h0) = 2
      /\ sessions[local[r].session].history = local[r].h0

RECURSIVE ExpectedExplanation(_)
\* the assistant contents of a history, first to last, a blank line between two
\* of them, the user entries passed over
ExpectedExplanation(h) ==
    IF h = << >> THEN << >>
    ELSE IF Head(h).role # "assistant" THEN ExpectedExplanation(Tail(h))
    ELSE IF \E i \in 2 .. Len(h) : h[i].role = "assistant"
    THEN Head(h).content \o <<"\n", "\n">> \o ExpectedExplanation(Tail(h))
    ELSE Head(h).content

\* C5: get_full_explanation on a stored session answers 200 with the contents
\* of the history's assistant entries in history order, a blank line between
\* them, nothing of the user entries, and the empty string when there is none.
C5_FullExplanationJoinsAssistant ==
    [][\A r \in Reqs :
         ( /\ pc[r] = "idle" /\ pc'[r] # "idle"
           /\ op'[r] = "get_full_explanation"
           /\ ~IsNone(req'[r].session_id)
           /\ Val(req'[r].session_id) \in DOMAIN sessions )
         => ( /\ pc'[r] = "done"
              /\ resp'[r].status = 200
              /\ resp'[r].key = "full_explanation"
              /\ resp'[r].value =
                   ExpectedExplanation(sessions[Val(req'[r].session_id)].history) )]_vars

\* two different answers joined in the order they were stored
C5_Witness ==
    \E r \in Reqs :
      /\ pc[r] = "done" /\ op[r] = "get_full_explanation"
      /\ resp[r].value = <<"y", "\n", "\n", "x">>
      /\ Len(sessions[Val(req[r].session_id)].history) = 4

C7_FreshIdentifier ==
    [][\A r \in Reqs :
         (pc[r] = "idle" /\ op'[r] = "start_session") =>
           LET id == resp'[r].session_id
           IN /\ id \notin DOMAIN sessions
              /\ DOMAIN sessions' = DOMAIN sessions \cup {id}
              /\ Cardinality(DOMAIN sessions') = Cardinality(DOMAIN sessions) + 1
              /\ \A i \in DOMAIN sessions : sessions'[i] = sessions[i]]_vars

\* a session just started beside an older one that kept its history
C7_Witness ==
    /\ Cardinality(DOMAIN sessions) = 2
    /\ \E r \in Reqs :
         /\ pc[r] = "done" /\ op[r] = "start_session"
         /\ sessions[resp[r].session_id].history = << >>
         /\ \E i \in DOMAIN sessions : Len(sessions[i].history) = 4

\* C8: in every step the history of each session is a prefix of its history
\* after the step.
C8_HistoryAppendOnly ==
    [][\A i \in DOMAIN sessions \cap DOMAIN sessions' :
         IsPrefix(sessions[i].history, sessions'[i].history)]_vars

\* a history that two concurrent requests have both appended to
C8_Witness ==
    \E i \in DOMAIN sessions :
      /\ Len(sessions[i].history) = 4
      /\ sessions[i].history[2].role = "user"
      /\ sessions[i].history[3].role = "assistant"
      /\ sessions[i].history[3].content # sessions[i].history[4].content

\* C9: no step takes a key out of the store.
C9_SessionsNeverRemoved ==
    [][DOMAIN sessions \subseteq DOMAIN sessions']_vars

\* two sessions still stored after a request has failed with 500 and another
\* with 404
C9_Witness ==
    /\ Cardinality(DOMAIN sessions) = 2
    /\ \E r, q \in Reqs :
         /\ pc[r] = "done" /\ resp[r].status = 500
         /\ pc[q] = "done" /\ resp[q].status = 404

C11_AtMostOneUpstreamCall ==
    \A r \in Reqs :
      /\ local[r].calls <= 1
      /\ (op[r] \notin SnippetOps => local[r].calls = 0)
      /\ (pc[r] = "call" => local[r].calls = 0)
      /\ (pc[r] \in {"store_user", "store_assistant"} => local[r].calls = 1)
      /\ (pc[r] = "done" /\ op[r] \in SnippetOps =>
            local[r].calls = (IF resp[r].status \in {404, 422} THEN 0 ELSE 1))

\* a request that failed upstream after its one call, beside a request for an
\* unknown session that made none
C11_Witness ==
    \E r, q \in Reqs :
      /\ pc[r] = "done" /\ op[r] \in SnippetOps /\ resp[r].status = 500
      /\ local[r].calls = 1
      /\ pc[q] = "done" /\ op[q] \in SnippetOps /\ resp[q].status = 404
      /\ local[q].calls = 0

\* C12: at the return of a successful snippet call the entries added since the
\* lookup are a user entry whose content is the request's snippet and an
\* assistant entry whose content is the text of the upstream answer, which is
\* also the value returned under the endpoint's result key.
C12_StoredContents ==
    \A r \in Reqs :
      Succeeded(r) =>
        LET h0 == local[r].h0
            h1 == local[r].h1
            answer == Val(local[r].response).data.candidates[1].content.parts[1].text
        IN /\ Len(h1) = Len(h0) + 2
           /\ h1[Len(h0) + 1] = Turn("user", Val(req[r].snippet))
           /\ h1[Len(h0) + 2] = Turn("assistant", resp[r].value)
           /\ resp[r].value = answer
           /\ resp[r].key = ResultKey(op[r])
           /\ h1[Len(h0) + 1].content # local[r].prompt
           /\ (~IsNone(req[r].question) => h1[Len(h0) + 1].content # Val(req[r].question))

\* a fix with a question and a language hint that returned the answer "y"
C12_Witness ==
    \E r \in Reqs :
      /\ Succeeded(r) /\ op[r] = "fix"
      /\ req[r].question = Some(<<"q">>)
      /\ req[r].programming_lang = Some(<<"py">>)
      /\ resp[r].value = <<"y">>
      /\ Len(local[r].h0) = 2

\* the requests that have appended their user entry to session i and not yet
\* their assistant entry
Between(i) == { r \in Reqs : pc[r] = "store_assistant" /\ local[r].session = i }

\* user, assistant, user, assistant, ... from the first entry on
Alternates(h) ==
    \A k \in 1 .. Len(h) : h[k].role = (IF k % 2 = 1 THEN "user" ELSE "assistant")

CountRole(h, role) == Cardinality({ k \in 1 .. Len(h) : h[k].role = role })

\* no prefix holds more assistant than user entries
UserFirst(h) ==
    \A n \in 1 .. Len(h) :
      CountRole(SubSeq(h, 1, n), "user") >= CountRole(SubSeq(h, 1, n), "assistant")

\* C13 as stated: whenever no request is between its two appends, every history
\* has even length and alternates user, assistant from the first entry on.
C13_AlwaysAlternates ==
    (\A r \in Reqs : pc[r] # "store_assistant") =>
      \A i \in DOMAIN sessions :
        Len(sessions[i].history) % 2 = 0 /\ Alternates(sessions[i].history)

Balanced ==
    \A i \in DOMAIN sessions :
      /\ UserFirst(sessions[i].history)
      /\ Between(i) = {} =>
           /\ Len(sessions[i].history) % 2 = 0
           /\ CountRole(sessions[i].history, "user")
                = CountRole(sessions[i].history, "assistant")

\* C13 amended: no prefix of a history holds more assistant than user entries,
\* and whenever no request is between its two appends on a session its history
\* has even length and as many user as assistant entries; a step keeps a
\* history alternating when at most one request is between its two appends on
\* that session before and after the step.
C13_AlternatesUnlessInterleaved ==
    [][/\ Balanced'
       /\ \A i \in DOMAIN sessions :
            ( /\ Alternates(sessions[i].history)
              /\ Cardinality(Between(i)) <= 1
              /\ Cardinality(Between(i)') <= 1 )
            => Alternates(sessions'[i].history)]_vars

\* two requests have interleaved their appends on one session and both have
\* returned
C13_Witness ==
    /\ \A r \in Reqs : pc[r] = "done" /\ resp[r].status = 200 /\ op[r] \in SnippetOps
    /\ \E i \in DOMAIN sessions :
         /\ Len(sessions[i].history) = 4
         /\ sessions[i].history[2].role = "user"
         /\ sessions[i].history[3].role = "assistant"
         /\ sessions[i].history[4].role = "assistant"

\* how many entries of h have this role and this content
CountTurn(h, role, content) ==
    Cardinality({ k \in 1 .. Len(h) : h[k] = [role |-> role, content |-> content] })

\* two successful calls on one session that both found the same history: the
\* later return sees that history followed by four entries, the two user and
\* the two assistant entries of the two calls, assistant never ahead of user
BothKept ==
    \A r, q \in Reqs :
      ( /\ r # q /\ Succeeded(r) /\ Succeeded(q)
        /\ local[r].session = local[q].session
        /\ local[r].h0 = local[q].h0
        /\ Len(local[r].h1) <= Len(local[q].h1) )
      => LET h0 == local[r].h0
             h == local[q].h1
             new == SubSeq(h, Len(h0) + 1, Len(h))
         IN /\ IsPrefix(h0, h) /\ IsPrefix(local[r].h1, h)
            /\ Len(new) = 4
            /\ CountTurn(new, "user", Val(req[r].snippet))
                 = Cardinality({ w \in {r, q} : req[w].snippet = req[r].snippet })
            /\ CountRole(new, "user") = 2
            /\ \A t \in Texts :
                 CountTurn(new, "assistant", t)
                   = Cardinality({ w \in {r, q} : resp[w].value = t })
            /\ UserFirst(new)

\* C14: every append of a handler lands behind whatever the history holds at
\* that moment, the other sessions untouched, so no entry is overwritten or
\* dropped; and two concurrent successful calls on one session leave exactly
\* their four entries behind the history they found.
C14_NoTurnLost ==
    [][/\ BothKept'
       /\ \A r \in Reqs :
            LET i == local[r].session IN
              /\ (pc[r] = "store_user" /\ pc'[r] # "store_user") =>
                   sessions'[i].history
                     = sessions[i].history \o << [role |-> "user", content |-> Val(req[r].snippet)] >>
              /\ (pc[r] = "store_assistant" /\ pc'[r] # "store_assistant") =>
                   sessions'[i].history
                     = sessions[i].history \o << [role |-> "assistant", content |-> local[r].text] >>]_vars

\* two calls that found the same history and got different answers have both
\* returned, their entries interleaved
C14_Witness ==
    \E r, q \in Reqs :
      /\ r # q /\ Succeeded(r) /\ Succeeded(q)
      /\ local[r].session = local[q].session
      /\ local[r].h0 = local[q].h0
      /\ resp[r].value # resp[q].value
      /\ Len(local[r].h1) = Len(local[r].h0) + 3
      /\ Len(local[q].h1) = Len(local[q].h0) + 4

\* C15: no step changes the file_name or full_file of a stored session; a
\* history changes only in an append step of a request that looked up that very
\* session; a step of a snippet request leaves every other session's record as
\* it was, and a start_session step leaves every record already stored as it was.
C15_OnlyOwnHistoryChanges ==
    [][/\ \A i \in DOMAIN sessions :
            /\ i \in DOMAIN sessions'
            /\ sessions'[i].file_name = sessions[i].file_name
            /\ sessions'[i].full_file = sessions[i].full_file
            /\ sessions'[i].history # sessions[i].history =>
                 \E r \in Reqs :
                   /\ op[r] \in SnippetOps
                   /\ local[r].session = i
                   /\ pc[r] \in {"store_user", "store_assistant"}
                   /\ pc'[r] # pc[r]
       /\ \A r \in Reqs :
            /\ (pc'[r] # pc[r] /\ op'[r] \in SnippetOps) =>
                 \A i \in DOMAIN sessions :
                   i # local'[r].session => sessions'[i] = sessions[i]
            /\ (pc'[r] # pc[r] /\ op'[r] = "start_session") =>
                 \A i \in DOMAIN sessions : sessions'[i] = sessions[i]]_vars

\* a call has returned on one session while the other session, with a request
\* of its own waiting for its upstream call, still has its empty history
C15_Witness ==
    \E r, q \in Reqs :
      /\ Succeeded(r)
      /\ pc[q] = "call"
      /\ local[q].session # local[r].session
      /\ sessions[local[q].session].history = << >>
      /\ Len(sessions[local[r].session].history) = 2

\* C16: a get_full_explanation step, whether it answers 200 or 404, leaves the
\* whole store as it was.
C16_FullExplanationReadsOnly ==
    [][\A r \in Reqs :
         (pc[r] = "idle" /\ op'[r] = "get_full_explanation") =>
           /\ pc'[r] = "done"
           /\ resp'[r].status \in {200, 404}
           /\ sessions' = sessions]_vars

\* one get_full_explanation answered with a stored answer, another with 404,
\* the history that was read still in place
C16_Witness ==
    \E r, q \in Reqs :
      /\ pc[r] = "done" /\ op[r] = "get_full_explanation" /\ resp[r].status = 200
      /\ resp[r].value # << >>
      /\ Len(sessions[Val(req[r].session_id)].history) = 2
      /\ resp[r].value = sessions[Val(req[r].session_id)].history[2].content
      /\ pc[q] = "done" /\ op[q] = "get_full_explanation" /\ resp[q].status = 404

\* C17: every request that a worker has taken on is eventually answered with
\* 200, 404 or 500, and the answer of a request is not replaced by another one
\* before it has gone out.
C17_EveryRequestAnswered ==
    /\ \A r \in Reqs :
         (pc[r] # "idle") ~> (pc[r] = "done" /\ resp[r].status \in {200, 404, 500})
    /\ [][\A r \in Reqs : (pc[r] = "done" /\ pc'[r] = "done") => resp'[r] = resp[r]]_vars

\* two requests that waited for their upstream calls have both been answered,
\* one with 200 and one with 500
C17_Witness ==
    \E r, q \in Reqs :
      /\ Succeeded(r)
      /\ pc[q] = "done" /\ op[q] \in SnippetOps /\ resp[q].status = 500
      /\ local[q].calls = 1

\* s occurs in p as a run of consecutive tokens
Contains(p, s) ==
    \E i \in 1 .. (Len(p) - Len(s) + 1) : SubSeq(p, i, i + Len(s) - 1) = s

\* at position i of p stands the rendering of history entry e: its role, a
\* colon and newline, its content
EntryAt(p, i, e) ==
    /\ i + 1 + Len(e.content) <= Len(p)
    /\ p[i] = e.role
    /\ p[i + 1] = ":\n"
    /\ SubSeq(p, i + 2, i + 1 + Len(e.content)) = e.content

RECURSIVE InOrderFrom(_, _, _)
\* the entries of h are rendered in p from position `start` on, one behind the
\* other in the order of h
InOrderFrom(p, start, h) ==
    \/ h = << >>
    \/ \E i \in start .. Len(p) :
         /\ EntryAt(p, i, Head(h))
         /\ InOrderFrom(p, i + 2 + Len(Head(h).content), Tail(h))

\* the positions of p at which some history entry is rendered
EntryPositions(p) ==
    { i \in 1 .. (Len(p) - 1) : p[i] \in {"user", "assistant"} /\ p[i + 1] = ":\n" }

====
